---- MODULE Spec2Model ----
(***************************************************************************)
(* Model of the svelte compiler's Component (compile/Component.ts) and of   *)
(* the DOM renderer entry point (compile/render-dom/index.ts): the alias    *)
(* registry, the ref validation of the constructor, the script walk, and    *)
(* the placeholder-driven text assembly of generate().                      *)
(*                                                                          *)
(* Text is a sequence of one-character strings; a JavaScript offset k is    *)
(* position k+1 of the sequence.  The scissors character U+2702 of the span *)
(* markers is written "^".                                                  *)
(***************************************************************************)
EXTENDS Integers, Sequences, FiniteSets, TLC

VARIABLES
    test,           \* config.test: the marker-suffix mode of the allocators
    reservedNames,  \* utils/reservedNames: static set
    shared,         \* compile/shared: the runtime-helper catalogue (its keys)
    source,         \* constructor argument: the original text
    ast,            \* constructor argument: [js, html]
    options,        \* CompileOptions: [dev, customElement, name, generate]
    phase,          \* "new", "constructed", "error", "generated"
    err,            \* the fatal error that ended the compilation, or NoError
    userVars,       \* Component.userVars
    usedNames,      \* Component.usedNames
    aliases,        \* Component.aliases (a function name -> emitted name)
    name,           \* Component.name
    declarations,   \* Component.declarations
    imports,        \* Component.imports (the hoisted import nodes)
    removed,        \* Component.code: the offsets removed from the MagicString
    javascript,     \* Component.javascript
    refs,           \* Component.refs
    refCallees,     \* Component.refCallees
    templateVars,   \* Component.templateVars (a function name -> text)
    makers,         \* the allocators made by getUniqueNameMaker: localUsedNames
                    \* of each (and, for the record, the names it returned)
    op,             \* the last allocator or fuzzymatch call and what it returned
    calls,          \* number of allocator calls made after construction
    out             \* what generate() produced

vars == <<test, reservedNames, shared, source, ast, options, phase, err,
          userVars, usedNames, aliases, name, declarations, imports, removed,
          javascript, refs, refCallees, templateVars, makers, op, calls, out>>

config == <<test, reservedNames, shared, source, ast, options>>
registry == <<userVars, usedNames, aliases>>

\* ------------------------------------------------------------------ bounds
MaxStmts == 2        \* statements of the script block
MaxRefCallees == 2   \* refs.<name> usages collected from the template
MaxCalls == 3        \* allocator calls after construction
MaxMakers == 2       \* allocators made by getUniqueNameMaker
MaxPieces == 2       \* fragments the block builders contribute to the template

\* ------------------------------------------------------------------- text
NoError == [code |-> "none", message |-> <<>>]

DigitChars == <<"0", "1", "2", "3", "4", "5", "6", "7", "8", "9">>
Digits == {DigitChars[i] : i \in 1..10}
DigitValue(c) == (CHOOSE i \in 1..10 : DigitChars[i] = c) - 1

\* String(n) of a non-negative integer, as the template literal `${i}` gives it
RECURSIVE NumberText(_)
NumberText(n) ==
    IF n < 10 THEN <<DigitChars[n + 1]>>
    ELSE NumberText(n \div 10) \o <<DigitChars[(n % 10) + 1]>>

\* +match[k]: the number a run of digits denotes
RECURSIVE ParseInt(_)
ParseInt(ds) ==
    IF ds = <<>> THEN 0
    ELSE 10 * ParseInt(SubSeq(ds, 1, Len(ds) - 1)) + DigitValue(ds[Len(ds)])

\* the sequences over S of length at most n
RECURSIVE SeqsUpTo(_, _)
SeqsUpTo(S, n) ==
    IF n = 0 THEN {<<>>}
    ELSE SeqsUpTo(S, n - 1) \cup
         {Append(s, x) : s \in {t \in SeqsUpTo(S, n - 1) : Len(t) = n - 1}, x \in S}

Slice(str, start, end) == SubSeq(str, start + 1, end)

\* the text "undefined", which String.replace inserts for an undefined result
UndefinedText == <<"u", "n", "d", "e", "f", "i", "n", "e", "d">>

\* UTF-16 code units of the characters the model uses
CharCode(c) ==
    CASE c = "\n" -> 10  [] c = " " -> 32  [] c = "#" -> 35  [] c = "$" -> 36
      [] c = "%" -> 37   [] c = "," -> 44  [] c = "-" -> 45  [] c = "/" -> 47
      [] c \in Digits -> 48 + DigitValue(c)
      [] c = ";" -> 59   [] c = "<" -> 60  [] c = ">" -> 62  [] c = "@" -> 64
      [] c = "C" -> 67   [] c = "D" -> 68  [] c = "H" -> 72  [] c = "S" -> 83
      [] c = "[" -> 91   [] c = "]" -> 93  [] c = "_" -> 95
      [] c = "a" -> 97   [] c = "b" -> 98  [] c = "c" -> 99  [] c = "d" -> 100
      [] c = "e" -> 101  [] c = "f" -> 102 [] c = "g" -> 103 [] c = "h" -> 104
      [] c = "i" -> 105  [] c = "l" -> 108 [] c = "m" -> 109 [] c = "n" -> 110
      [] c = "o" -> 111  [] c = "p" -> 112 [] c = "r" -> 114 [] c = "s" -> 115
      [] c = "t" -> 116  [] c = "u" -> 117 [] c = "v" -> 118 [] c = "x" -> 120
      [] c = "{" -> 123  [] c = "}" -> 125 [] c = "^" -> 9986

IsWhitespace(c) == c \in {" ", "\n"}                      \* /\s/
IsWordChar(c) ==                                          \* /\w/
    \/ c \in Digits
    \/ c = "_"
    \/ (CharCode(c) >= 65 /\ CharCode(c) <= 90)
    \/ (CharCode(c) >= 97 /\ CharCode(c) <= 122)

\* ------------------------------------------------------- the alias registry
\* the loop of getUniqueName and of the allocator getUniqueNameMaker returns:
\* alias = name; for (i = 1; taken.has(alias); alias = `${name}_${i++}`);
RECURSIVE uniqueLoop(_, _, _, _)
uniqueLoop(base, alias, i, taken) ==
    IF alias \in taken
    THEN uniqueLoop(base, base \o <<"_">> \o NumberText(i), i + 1, taken)
    ELSE alias

markerSuffix(n) == IF test THEN n \o <<"$">> ELSE n

getUniqueName_ignoresUserVars(n, uv, used) ==
    uniqueLoop(markerSuffix(n), markerSuffix(n), 1, reservedNames \cup used)

getUniqueName_countsFromTwo(n, uv, used) ==
    uniqueLoop(markerSuffix(n), markerSuffix(n), 2,
               reservedNames \cup uv \cup used)

\* Component.getUniqueName: the name it returns (the caller adds it to usedNames)
getUniqueName(n, uv, used) ==
    uniqueLoop(markerSuffix(n), markerSuffix(n), 1,
               reservedNames \cup uv \cup used)

alias_notMemoized(n, uv, reg) ==
    LET u == getUniqueName(n, uv, reg.usedNames)
    IN  [ret |-> u, aliases |-> (n :> u) @@ reg.aliases,
         usedNames |-> reg.usedNames \cup {u}]

\* Component.alias on the registry reg = [aliases, usedNames]
alias(n, uv, reg) ==
    IF n \in DOMAIN reg.aliases
    THEN [ret |-> reg.aliases[n], aliases |-> reg.aliases,
          usedNames |-> reg.usedNames]
    ELSE LET u == getUniqueName(n, uv, reg.usedNames)
         IN  [ret |-> u, aliases |-> (n :> u) @@ reg.aliases,
              usedNames |-> reg.usedNames \cup {u}]

uniqueNameMaker_ignoresParent(n, localUsedNames) ==
    uniqueLoop(markerSuffix(n), markerSuffix(n), 1, localUsedNames)

\* the closure getUniqueNameMaker returns: the name it returns
uniqueNameMaker(n, localUsedNames) ==
    uniqueLoop(markerSuffix(n), markerSuffix(n), 1,
               usedNames \cup localUsedNames)

\* --------------------------------------------------------- the script walk
\* `[^${a}-${b}^]`: the span marker of the source range [a, b)
spanMarker(a, b) ==
    <<"[", "^">> \o NumberText(a) \o <<"-">> \o NumberText(b) \o <<"^", "]">>

\* utils/removeNode(code, js.content, node): the offsets it removes from code
removeNode(node) == node.start .. (node.end - 1)

\* let a = js.content.start; while (/\s/.test(source[a])) a += 1;
RECURSIVE skipWhitespace(_, _)
skipWhitespace(src, a) ==
    IF a < Len(src) /\ IsWhitespace(src[a + 1]) THEN skipWhitespace(src, a + 1)
    ELSE a

\* let b = js.content.end; while (/\s/.test(source[b - 1])) b -= 1;
RECURSIVE skipWhitespaceBack(_, _)
skipWhitespaceBack(src, b) ==
    IF b >= 1 /\ b <= Len(src) /\ IsWhitespace(src[b])
    THEN skipWhitespaceBack(src, b - 1)
    ELSE b

importNodes(body) == SelectSeq(body, LAMBDA n : n.type = "ImportDeclaration")

SeqRange(s) == {s[i] : i \in 1..Len(s)}

\* this.javascript of walkJs (this.defaultExport is never set)
scriptSpans(a, b) ==
    [defined |-> TRUE,
     parts |-> <<IF a # b THEN spanMarker(a, b) ELSE <<>>, <<>>>>]

\* this.javascript of a component without a script: never assigned
NoJavascript == [defined |-> FALSE, parts |-> <<>>]

\* Component.walkJs: what it leaves in the component, or the error it throws
walkJs(src, js) ==
    IF js.type # "Program"
    THEN \* if (!js) return
         [err |-> NoError, userVars |-> {}, declarations |-> <<>>,
          imports |-> <<>>, removed |-> {}, javascript |-> NoJavascript]
    ELSE IF js.body = <<>>
    THEN \* js.content.body[0].start of an empty body
         [err |-> [code |-> "TypeError", message |-> <<>>], userVars |-> {},
          declarations |-> <<>>, imports |-> <<>>, removed |-> {},
          javascript |-> NoJavascript]
    ELSE IF \E n \in SeqRange(js.body) : n.type = "ExportDefaultDeclaration"
    THEN [err |-> [code |-> "default-export", message |-> <<>>],
          userVars |-> {}, declarations |-> <<>>, imports |-> <<>>,
          removed |-> {}, javascript |-> NoJavascript]
    ELSE [err |-> NoError,
          userVars |-> SeqRange(js.declarations) \cup js.globals \cup
              UNION {n.locals : n \in SeqRange(importNodes(js.body))},
          declarations |-> js.declarations,
          imports |-> importNodes(js.body),
          removed |-> UNION {removeNode(n) : n \in SeqRange(importNodes(js.body))},
          javascript |-> scriptSpans(skipWhitespace(src, js.start),
                                     skipWhitespaceBack(src, js.end))]

\* ------------------------------------------------------- the ref validation
\* new Fragment(component, ast.html): the refs and refs.<name> usages it collects
Fragment(html) == [refs |-> html.refs, refCallees |-> html.refCallees]

\* validate/utils/fuzzymatch(ref, names): the results it may give, a declared
\* name or nothing (NoMatch)
NoMatch == <<>>
fuzzymatch(ref, names) == names \cup {NoMatch}

TextRefs == <<"'", "r", "e", "f", "s", ".">>
TextDoesNotExist ==
    <<"'", " ", "d", "o", "e", "s", " ", "n", "o", "t", " ", "e", "x", "i", "s", "t">>
TextDidYouMean ==
    <<" ", "(", "d", "i", "d", " ", "y", "o", "u", " ", "m", "e", "a", "n", " ">>
TextQuestion == <<"'", "?", ")">>

\* the message of the missing-ref error
missingRefMessage(ref, match) ==
    TextRefs \o ref \o TextDoesNotExist \o
    (IF match # NoMatch THEN TextDidYouMean \o TextRefs \o match \o TextQuestion
     ELSE <<>>)

\* Component.error: error() of utils/error throws, the compilation ends
error(code, message) == [code |-> code, message |-> message]

missingRefs_lastOnly(callees, declared) ==
    IF callees # <<>> /\ callees[Len(callees)] \notin declared
    THEN <<callees[Len(callees)]>> ELSE <<>>

\* the usages the refCallees.forEach of the constructor finds undeclared
missingRefs(callees, declared) == SelectSeq(callees, LAMBDA r : r \notin declared)

\* the constructor's refCallees.forEach: the error of the first undeclared usage
validateRefs(callees, declared, match) ==
    IF missingRefs(callees, declared) = <<>> THEN NoError
    ELSE error("missing-ref",
               missingRefMessage(missingRefs(callees, declared)[1], match))

\* ----------------------------------------------------------- the constructor
NoScript == [type |-> "Null"]
NoTag == <<>>
NoOp == [kind |-> "none", name |-> <<>>, maker |-> 0, ret |-> <<>>, cached |-> FALSE]
NoOutput == [code |-> <<>>, segments |-> <<>>, importedHelpers |-> <<>>,
             helpers |-> {}, sigils |-> <<>>, result |-> <<>>, module |-> <<>>]
EmptyMap == [n \in {} |-> <<>>]

firstMissingRef(html) == missingRefs(Fragment(html).refCallees, Fragment(html).refs)

\* new Component(ast, source, name, options, stats)
Constructor ==
    /\ phase = "new"
    /\ LET w  == walkJs(source, ast.js)
           al == alias(options.name, w.userVars,
                       [aliases |-> aliases, usedNames |-> usedNames])
           tag == IF options.customElement THEN ast.html.tag ELSE NoTag
           fr == Fragment(ast.html)
       IN  \E match \in (IF firstMissingRef(ast.html) = <<>> THEN {NoMatch}
                         ELSE fuzzymatch(firstMissingRef(ast.html)[1], fr.refs)) :
             LET e == IF w.err # NoError THEN w.err
                      ELSE IF options.customElement /\ tag = NoTag
                      THEN error("Error", <<>>)   \* No tag name specified
                      ELSE validateRefs(fr.refCallees, fr.refs, match)
             IN  IF e # NoError
                 THEN /\ phase' = "error"
                      /\ err' = e
                      /\ op' = IF e.code = "missing-ref"
                               THEN [kind |-> "fuzzymatch",
                                     name |-> firstMissingRef(ast.html)[1],
                                     maker |-> 0, ret |-> match, cached |-> FALSE]
                               ELSE op
                      /\ UNCHANGED <<userVars, usedNames, aliases, name,
                                     declarations, imports, removed, javascript,
                                     refs, refCallees>>
                 ELSE /\ phase' = "constructed"
                      /\ err' = NoError
                      /\ userVars' = w.userVars
                      /\ usedNames' = al.usedNames
                      /\ aliases' = al.aliases
                      /\ name' = al.ret
                      /\ declarations' = w.declarations
                      /\ imports' = w.imports
                      /\ removed' = w.removed
                      /\ javascript' = w.javascript
                      /\ refs' = fr.refs
                      /\ refCallees' = fr.refCallees
                      /\ op' = op
    /\ UNCHANGED <<config, templateVars, makers, calls, out>>

\* --------------------------------------------- calls on the alias registry
Requested == {<<"g">>, <<"g", "_", "1">>, <<"h">>}   \* the names requested

\* component.alias(n), as the fragment builders and the renderer call it
CallAlias(n) ==
    /\ phase = "constructed"
    /\ calls < MaxCalls
    /\ LET al == alias(n, userVars, [aliases |-> aliases, usedNames |-> usedNames])
       IN  /\ aliases' = al.aliases
           /\ usedNames' = al.usedNames
           /\ op' = [kind |-> "alias", name |-> n, maker |-> 0, ret |-> al.ret,
                     cached |-> n \in DOMAIN aliases]
    /\ calls' = calls + 1
    /\ UNCHANGED <<config, phase, err, userVars, name, declarations, imports,
                   removed, javascript, refs, refCallees, templateVars, makers,
                   out>>

\* component.getUniqueName(n)
CallGetUniqueName(n) ==
    /\ phase = "constructed"
    /\ calls < MaxCalls
    /\ LET u == getUniqueName(n, userVars, usedNames)
       IN  /\ usedNames' = usedNames \cup {u}
           /\ op' = [kind |-> "getUniqueName", name |-> n, maker |-> 0, ret |-> u,
                     cached |-> FALSE]
    /\ calls' = calls + 1
    /\ UNCHANGED <<config, phase, err, userVars, aliases, name, declarations,
                   imports, removed, javascript, refs, refCallees, templateVars,
                   makers, out>>

\* component.getUniqueNameMaker(): the localUsedNames of the new allocator
getUniqueNameMaker == reservedNames \cup userVars

CallGetUniqueNameMaker ==
    /\ phase = "constructed"
    /\ Len(makers) < MaxMakers
    /\ makers' = Append(makers, [localUsedNames |-> getUniqueNameMaker,
                                  returned |-> {}])
    /\ op' = [kind |-> "getUniqueNameMaker", name |-> <<>>,
              maker |-> Len(makers) + 1, ret |-> <<>>, cached |-> FALSE]
    /\ UNCHANGED <<config, phase, err, registry, name, declarations, imports,
                   removed, javascript, refs, refCallees, templateVars, calls,
                   out>>

\* a call of the allocator m that getUniqueNameMaker returned
CallUniqueNameMaker(m, n) ==
    /\ phase = "constructed"
    /\ calls < MaxCalls
    /\ m \in 1..Len(makers)
    /\ LET u == uniqueNameMaker(n, makers[m].localUsedNames)
       IN  /\ makers' = [makers EXCEPT ![m] =
                           [localUsedNames |-> @.localUsedNames \cup {u},
                            returned |-> @.returned \cup {u}]]
           /\ op' = [kind |-> "uniqueNameMaker", name |-> n, maker |-> m, ret |-> u,
                     cached |-> FALSE]
    /\ calls' = calls + 1
    /\ UNCHANGED <<config, phase, err, registry, name, declarations, imports,
                   removed, javascript, refs, refCallees, templateVars, out>>

\* ------------------------------------------------------------- generate()
Dev == <<"D", "e", "v">>
SvelteComponent ==
    <<"S", "v", "e", "l", "t", "e", "C", "o", "m", "p", "o", "n", "e", "n", "t">>

\* the sigils of the substitution pattern: /(@+|#+|%+).../ for ssr, else /(%+|@+).../
sigilChars(generateOption) ==
    IF generateOption = "ssr" THEN {"@", "#", "%"} ELSE {"%", "@"}

\* c+ : the end (exclusive) of the run of the character c that starts at p
RECURSIVE sigilEnd(_, _, _)
sigilEnd(text, p, c) ==
    IF p <= Len(text) /\ text[p] = c THEN sigilEnd(text, p + 1, c) ELSE p

\* \w* : the end (exclusive) of the run of word characters that starts at p
RECURSIVE wordEnd(_, _)
wordEnd(text, p) ==
    IF p <= Len(text) /\ IsWordChar(text[p]) THEN wordEnd(text, p + 1) ELSE p

\* the match of (sigil+)(\w*(?:-\w*)?) at p, where text[p] is a sigil character
sigilMatch(text, p) ==
    LET sEnd == sigilEnd(text, p, text[p])
        w1   == wordEnd(text, sEnd)
        nEnd == IF w1 <= Len(text) /\ text[w1] = "-"
                THEN wordEnd(text, w1 + 1) ELSE w1
    IN  [sigil |-> SubSeq(text, p, sEnd - 1),
         name |-> SubSeq(text, sEnd, nEnd - 1),
         end |-> nEnd]

helperFor_devWithoutVariant(n, dev) == IF n \in shared /\ dev THEN n \o Dev ELSE n

\* if (name in shared) { if (options.dev && `${name}Dev` in shared) name = `${name}Dev`; ...
helperFor(n, dev) ==
    IF n \in shared /\ dev /\ (n \o Dev) \in shared THEN n \o Dev ELSE n

\* return this.templateVars.get(name): String.replace writes undefined as text
templateVar(n, tv) == IF n \in DOMAIN tv THEN tv[n] ELSE UndefinedText

\* the replace() callback of generate on one match
replaceOne(m, o, tv, acc) ==
    IF m.sigil = <<"@">>
    THEN LET h  == helperFor(m.name, o.dev)
             al == alias(h, userVars, [aliases |-> acc.aliases,
                                       usedNames |-> acc.usedNames])
         IN  [out |-> acc.out \o al.ret,
              helpers |-> IF m.name \in shared /\ h \notin SeqRange(acc.helpers)
                          THEN Append(acc.helpers, h) ELSE acc.helpers,
              aliases |-> al.aliases,
              usedNames |-> al.usedNames,
              sigils |-> Append(acc.sigils,
                  [sigil |-> "@", name |-> m.name,
                   used |-> IF m.name \in shared THEN h ELSE <<>>,
                   key |-> h, text |-> al.ret, resolved |-> TRUE])]
    ELSE IF m.sigil = <<"%">>
    THEN [acc EXCEPT !.out = @ \o templateVar(m.name, tv),
                     !.sigils = Append(@,
                         [sigil |-> "%", name |-> m.name, used |-> <<>>,
                          key |-> <<>>, text |-> templateVar(m.name, tv),
                          resolved |-> m.name \in DOMAIN tv])]
    ELSE [acc EXCEPT !.out = @ \o Tail(m.sigil) \o m.name]

\* result.replace(pattern, callback): the scan from position p on
RECURSIVE replaceSigils(_, _, _, _, _)
replaceSigils(text, p, o, tv, acc) ==
    IF p > Len(text) THEN acc
    ELSE IF text[p] \notin sigilChars(o.generate)
    THEN replaceSigils(text, p + 1, o, tv, [acc EXCEPT !.out = Append(@, text[p])])
    ELSE LET m == sigilMatch(text, p)
         IN  replaceSigils(text, m.end, o, tv, replaceOne(m, o, tv, acc))

\* a < b as Array.prototype.sort compares strings: by UTF-16 code units
StrLess(a, b) ==
    \E i \in 1..Len(b) :
        /\ i <= Len(a) + 1
        /\ \A j \in 1..(i - 1) : a[j] = b[j]
        /\ i = Len(a) + 1 \/ CharCode(a[i]) < CharCode(b[i])

RECURSIVE insertSorted(_, _)
insertSorted(sorted, x) ==
    IF sorted = <<>> THEN <<x>>
    ELSE IF StrLess(x, Head(sorted)) THEN <<x>> \o sorted
    ELSE <<Head(sorted)>> \o insertSorted(Tail(sorted), x)

\* names.sort()
RECURSIVE sort(_)
sort(names) ==
    IF names = <<>> THEN <<>>
    ELSE insertSorted(sort(SubSeq(names, 1, Len(names) - 1)), names[Len(names)])

\* Array.from(helpers).concat('SvelteComponent').sort()
helperNames(helpers) == sort(Append(helpers, SvelteComponent))

\* .map(name => ({ name, alias: this.alias(name) })), from the k-th name on
RECURSIVE aliasHelpers(_, _, _)
aliasHelpers(names, k, acc) ==
    IF k > Len(names) THEN acc
    ELSE LET al == alias(names[k], userVars, [aliases |-> acc.aliases,
                                              usedNames |-> acc.usedNames])
         IN  aliasHelpers(names, k + 1,
                 [importedHelpers |-> Append(acc.importedHelpers,
                                             [name |-> names[k], alias |-> al.ret]),
                  aliases |-> al.aliases, usedNames |-> al.usedNames])

Banner == <<"/", "\n">>

\* wrapModule(result, format, name, options, banner, ...): the wrapped text
wrapModule(result) == Banner \o result

\* the first position at or after p where the separator SCISSORS + ']' starts
\* (0: nowhere)
RECURSIVE nextSeparator(_, _)
nextSeparator(text, p) ==
    IF p >= Len(text) THEN 0
    ELSE IF text[p] = "^" /\ text[p + 1] = "]" THEN p
    ELSE nextSeparator(text, p + 1)

\* module.split(SCISSORS + ']'): the pieces between the separators
RECURSIVE split(_, _)
split(text, from) ==
    LET i == nextSeparator(text, from)
    IN  IF i = 0 THEN <<SubSeq(text, from, Len(text))>>
        ELSE <<SubSeq(text, from, i - 1)>> \o split(text, i + 2)

\* the length of the run of digits that ends at position p
RECURSIVE digitsBefore(_, _)
digitsBefore(str, p) ==
    IF p >= 1 /\ str[p] \in Digits THEN 1 + digitsBefore(str, p - 1) ELSE 0

\* pattern.exec(str) for /\[SCISSORS(\d+)-(\d+)$/
spanMatch(str) ==
    LET n2 == digitsBefore(str, Len(str))
        d  == Len(str) - n2                 \* where "-" has to be
        n1 == digitsBefore(str, d - 1)
        c  == d - 1 - n1                    \* where the scissors have to be
    IN  IF /\ n2 >= 1 /\ d >= 1 /\ str[d] = "-"
           /\ n1 >= 1 /\ c >= 2 /\ str[c] = "^" /\ str[c - 1] = "["
        THEN [found |-> TRUE, index |-> c - 1,
              start |-> ParseInt(SubSeq(str, c + 1, d - 1)),
              end |-> ParseInt(SubSeq(str, d + 1, Len(str)))]
        ELSE [found |-> FALSE, index |-> 0, start |-> 0, end |-> 0]

\* the text of a MagicString over src from which the offsets gone were removed
RECURSIVE rendered(_, _, _, _)
rendered(src, gone, start, end) ==
    IF start >= end THEN <<>>
    ELSE (IF start \in gone THEN <<>> ELSE <<src[start + 1]>>)
         \o rendered(src, gone, start + 1, end)

snip_ofSource(src, gone, start, end) == Slice(src, start, end)

\* this.code.snip(start, end): the clone keeps the edits made to this.code
snip(src, gone, start, end) == rendered(src, gone, start, end)

needsPlaceholder_always(parts) == TRUE

\* if (!parts.length): no span marker closes anywhere in the module
needsPlaceholder(parts) == parts = <<>>

\* the sources the parts.forEach of generate adds to the bundle
RECURSIVE addParts(_, _, _, _)
addParts(parts, k, src, gone) ==
    IF k > Len(parts) THEN <<>>
    ELSE LET m == spanMatch(parts[k])
             chunk == SubSeq(parts[k], 1, m.index - 1)
         IN  (IF chunk # <<>>
              THEN <<[kind |-> "string", filename |-> FALSE, content |-> chunk,
                      start |-> 0, end |-> 0]>>
              ELSE <<>>)
             \o <<[kind |-> "snippet", filename |-> TRUE,
                   content |-> snip(src, gone, m.start, m.end),
                   start |-> m.start, end |-> m.end]>>
             \o addParts(parts, k + 1, src, gone)

\* compiled.toString() with separator ''
RECURSIVE bundleText(_)
bundleText(segments) ==
    IF segments = <<>> THEN <<>>
    ELSE Head(segments).content \o bundleText(Tail(segments))

\* Component.generate(result, options, { banner, name, format })
generate(result, o, tv) ==
    LET sub == replaceSigils(result, 1, o, tv,
                   [out |-> <<>>, helpers |-> <<>>, aliases |-> aliases,
                    usedNames |-> usedNames, sigils |-> <<>>])
        imp == aliasHelpers(helperNames(sub.helpers), 1,
                   [importedHelpers |-> <<>>, aliases |-> sub.aliases,
                    usedNames |-> sub.usedNames])
        module == wrapModule(sub.out)
        pieces == split(module, 1)
        parts == SubSeq(pieces, 1, Len(pieces) - 1)
        finalChunk == pieces[Len(pieces)]
        crashed == \E k \in 1..Len(parts) : ~spanMatch(parts[k]).found
        segments ==
            (IF needsPlaceholder(parts)
             THEN <<[kind |-> "placeholder", filename |-> TRUE,
                     content |-> rendered(source, 0..(Len(source) - 1), 0, Len(source)),
                     start |-> 0, end |-> 0]>>
             ELSE <<>>)
            \o addParts(parts, 1, source, removed)
            \o <<[kind |-> "string", filename |-> FALSE, content |-> finalChunk,
                  start |-> 0, end |-> 0]>>
    IN  IF crashed
        THEN \* match is null: match[1] throws
             [err |-> error("TypeError", <<>>), aliases |-> imp.aliases,
              usedNames |-> imp.usedNames,
              out |-> [code |-> <<>>, segments |-> <<>>,
                       importedHelpers |-> imp.importedHelpers,
                       helpers |-> SeqRange(sub.helpers), sigils |-> sub.sigils,
                       result |-> result, module |-> module]]
        ELSE [err |-> NoError, aliases |-> imp.aliases, usedNames |-> imp.usedNames,
              out |-> [code |-> bundleText(segments), segments |-> segments,
                       importedHelpers |-> imp.importedHelpers,
                       helpers |-> SeqRange(sub.helpers), sigils |-> sub.sigils,
                       result |-> result, module |-> module]]

\* ----------------------------------------------------------- the renderer
RECURSIVE join(_, _)
join(names, separator) ==
    IF names = <<>> THEN <<>>
    ELSE IF Len(names) = 1 THEN names[1]
    ELSE names[1] \o separator \o join(Tail(names), separator)

\* `${component.javascript}`: the array as text, or "undefined"
javascriptText(js) == IF js.defined THEN join(js.parts, <<",">>) ELSE UndefinedText

\* the class block dom() adds after the blocks of the renderer
classBlock(o) ==
    IF o.customElement
    THEN <<"c", " ">> \o name \o <<" ", "H", "{", "}", "\n">>
    ELSE <<"c", " ">> \o name \o <<" ", "@">> \o SvelteComponent \o <<"{">>
         \o javascriptText(javascript) \o <<"\n">>
         \o join(declarations, <<",">>) \o <<"}", "\n">>

\* what the blocks of the renderer may contribute to the template
BlockPieces ==
    { <<"@", "a">>, <<"@", "g">>, <<"@", "@", "a">>, <<"%", "s">>, <<"%", "u">>,
      <<"[", "^", "0", "-", "1", "^", "]">> }

RECURSIVE concat(_)
concat(texts) == IF texts = <<>> THEN <<>> ELSE Head(texts) \o concat(Tail(texts))

\* the template variables the renderer sets
RendererTemplateVars == (<<"s">> :> <<"s", "_", "0">>)

\* dom(component, options): builds the template and hands it to generate
Dom ==
    /\ phase = "constructed"
    /\ \E blocks \in SeqsUpTo(BlockPieces, MaxPieces) :
         \E g \in {generate(concat(blocks) \o classBlock(options), options,
                            RendererTemplateVars)} :
             /\ templateVars' = RendererTemplateVars
             /\ aliases' = g.aliases
             /\ usedNames' = g.usedNames
             /\ out' = g.out
             /\ err' = g.err
             /\ phase' = IF g.err = NoError THEN "generated" ELSE "error"
    /\ UNCHANGED <<config, userVars, name, declarations, imports, removed,
                   javascript, refs, refCallees, makers, op, calls>>

\* ------------------------------------------------------------------ inputs
StmtKinds == {"ImportDeclaration", "ExpressionStatement", "ExportDefaultDeclaration"}

StmtText(kind) ==
    CASE kind = "ImportDeclaration" -> <<"i", ";">>
      [] kind = "ExpressionStatement" -> <<"x", ";">>
      [] kind = "ExportDefaultDeclaration" -> <<"e", ";">>

RECURSIVE ScriptText(_)
ScriptText(kinds) ==
    IF kinds = <<>> THEN <<>>
    ELSE StmtText(Head(kinds)) \o <<"\n">> \o ScriptText(Tail(kinds))

\* the text of a component: markup "H", then the script block "<" ... ">"
SourceOf(kinds) == <<"H", "<", "\n">> \o ScriptText(kinds) \o <<">">>
HtmlOnlySource == <<"H">>

\* the Program node the parser gives for SourceOf(kinds)
ProgramOf(kinds, decls, globals) ==
    [type |-> "Program", start |-> 2, end |-> 3 + 3 * Len(kinds),
     body |-> [k \in 1..Len(kinds) |->
                 [type |-> kinds[k], start |-> 3 * k, end |-> 3 * k + 2,
                  locals |-> IF kinds[k] = "ImportDeclaration"
                             THEN {<<"g">>} ELSE {}]],
     declarations |-> decls, globals |-> globals]

HtmlOf(declared, callees, tag) ==
    [refs |-> declared, refCallees |-> callees, tag |-> tag]

ComponentName == <<"C">>
TagName == <<"x", "-", "c">>

InitComponent ==
    /\ phase = "new"
    /\ err = NoError
    /\ userVars = {}
    /\ usedNames = {}
    /\ aliases = EmptyMap
    /\ name = <<>>
    /\ declarations = <<>>
    /\ imports = <<>>
    /\ removed = {}
    /\ javascript = NoJavascript
    /\ refs = {}
    /\ refCallees = <<>>
    /\ templateVars = EmptyMap
    /\ makers = <<>>
    /\ op = NoOp
    /\ calls = 0
    /\ out = NoOutput

\* ---------------------------------------- specification: the alias registry
InitAlias ==
    /\ test \in BOOLEAN
    /\ reservedNames \in {{}, {<<"g">>}}
    /\ shared = {}
    /\ \E decls \in {<<>>, <<<<"g", "_", "1">>>>, <<<<"h">>, <<"g", "_", "2">>>>},
          globals \in {{}, {<<"h", "_", "1">>}} :
         /\ source = SourceOf(<<"ExpressionStatement">>)
         /\ ast = [js |-> ProgramOf(<<"ExpressionStatement">>, decls, globals),
                   html |-> HtmlOf({}, <<>>, NoTag)]
    /\ options = [dev |-> FALSE, customElement |-> FALSE, name |-> ComponentName,
                  generate |-> "dom"]
    /\ InitComponent

NextAlias ==
    \/ Constructor
    \/ \E n \in Requested : CallAlias(n)
    \/ \E n \in Requested : CallGetUniqueName(n)
    \/ CallGetUniqueNameMaker
    \/ \E m \in 1..MaxMakers, n \in Requested : CallUniqueNameMaker(m, n)

SpecAlias == InitAlias /\ [][NextAlias]_vars

\* ---------------------------------------- specification: the ref validation
RefNames == {<<"c", "a", "m">>, <<"c", "r", "a">>, <<"d">>}

InitRefs ==
    /\ test = FALSE
    /\ reservedNames = {}
    /\ shared = {}
    /\ \E kinds \in SeqsUpTo(StmtKinds, 1), declared \in SUBSET RefNames,
          callees \in SeqsUpTo(RefNames, MaxRefCallees), tag \in {NoTag, TagName} :
         \/ /\ source = SourceOf(kinds)
            /\ ast = [js |-> ProgramOf(kinds, <<>>, {}),
                      html |-> HtmlOf(declared, callees, tag)]
         \/ /\ kinds = <<>>
            /\ source = HtmlOnlySource
            /\ ast = [js |-> NoScript, html |-> HtmlOf(declared, callees, tag)]
    /\ options \in [dev : {FALSE}, customElement : BOOLEAN, name : {ComponentName},
                    generate : {"dom"}]
    /\ InitComponent

NextRefs == Constructor

SpecRefs == InitRefs /\ [][NextRefs]_vars


\* ---------------------------------------------- specification: generate()
Catalogues ==
    { {<<"a">>, <<"a">> \o Dev, SvelteComponent},
      {<<"a">>, SvelteComponent, SvelteComponent \o Dev},
      {<<"a">>, <<"a">> \o Dev} }

InitGenerate ==
    /\ test = FALSE
    /\ reservedNames = {<<"g">>}
    /\ shared \in Catalogues
    /\ \E kinds \in SeqsUpTo(StmtKinds, MaxStmts) :
         \/ /\ source = SourceOf(kinds)
            /\ ast = [js |-> ProgramOf(kinds, <<<<"x">>>>, {}),
                      html |-> HtmlOf({}, <<>>, TagName)]
         \/ /\ kinds = <<>>
            /\ source = HtmlOnlySource
            /\ ast = [js |-> NoScript, html |-> HtmlOf({}, <<>>, TagName)]
    /\ options \in [dev : BOOLEAN, customElement : BOOLEAN, name : {ComponentName},
                    generate : {"dom"}]
    /\ InitComponent

Next == Constructor \/ Dom

Spec == InitGenerate /\ [][Next]_vars

\* ===================================================== the alias registry
Taken == reservedNames \cup userVars \cup usedNames

\* the k-th candidate for the base name b: b, b_1, b_2, ...
Candidate(b, k) == IF k = 0 THEN b ELSE b \o <<"_">> \o NumberText(k)

FirstFree(b, taken) ==
    Candidate(b, CHOOSE k \in 0..Cardinality(taken) :
                    /\ Candidate(b, k) \notin taken
                    /\ \A j \in 0..(k - 1) : Candidate(b, j) \in taken)

AllocatorCall(kind) == calls' = calls + 1 /\ op'.kind = kind
FreshNameRequest ==
    \/ AllocatorCall("getUniqueName")
    \/ AllocatorCall("alias") /\ ~op'.cached

\* C1 (alias uniqueness): the emitted names of distinct logical names are
\* pairwise distinct, none of them is a reserved name or a user name, and
\* alias() returns the emitted name the alias map holds.
C1_AliasUniqueness ==
    /\ \A x \in DOMAIN aliases :
         /\ aliases[x] \notin reservedNames \cup userVars
         /\ \A y \in DOMAIN aliases : x # y => aliases[x] # aliases[y]
    /\ op.kind = "alias" => op.ret = aliases[op.name]

C1_Witness ==
    /\ Cardinality(DOMAIN aliases) >= 3
    /\ \E x \in DOMAIN aliases :
         /\ x \in reservedNames \cup userVars
         /\ aliases[x] # x

\* C2 (alias determinism): no step changes the emitted name of a logical name
\* that has one, and alias(x) for such an x returns that name and leaves
\* usedNames and the alias map as they are.
C2_AliasDeterminism ==
    [][/\ \A x \in DOMAIN aliases :
            x \in DOMAIN aliases' /\ aliases'[x] = aliases[x]
       /\ (AllocatorCall("alias") /\ op'.name \in DOMAIN aliases)
            => /\ op'.ret = aliases[op'.name]
               /\ usedNames' = usedNames
               /\ aliases' = aliases]_vars

C2_Witness ==
    /\ op.kind = "alias"
    /\ op.cached
    /\ calls = MaxCalls
    /\ Cardinality(usedNames) > Cardinality(DOMAIN aliases)

\* C3 as stated: the first free candidate is returned and inserted; with `g`
\* reserved alias("g") is "g_1"; and a second, distinct logical name that
\* collides as well resolves to "g_2" (both read with "g_1", "g_2" free).
C3_AsStated ==
    [][(~test /\ FreshNameRequest) =>
         /\ op'.ret = FirstFree(op'.name, Taken)
         /\ usedNames' = usedNames \cup {op'.ret}
         /\ (/\ op'.kind = "alias"
             /\ op'.name = <<"g">>
             /\ <<"g">> \in reservedNames
             /\ <<"g", "_", "1">> \notin Taken)
              => op'.ret = <<"g", "_", "1">>
         /\ (/\ op'.kind = "alias"
             /\ op'.name # <<"g">>
             /\ op'.name \in Taken
             /\ <<"g">> \in reservedNames
             /\ <<"g">> \in DOMAIN aliases
             /\ aliases[<<"g">>] = <<"g", "_", "1">>
             /\ <<"g", "_", "2">> \notin Taken)
              => op'.ret = <<"g", "_", "2">>]_vars

\* C3 (deterministic collision resolution, marker-suffix mode off), amended:
\* a fresh-name request for the base name b returns the first of b, b_1, b_2,
\* ... that is in none of reservedNames, userVars, usedNames, and inserts it
\* into usedNames; with `g` reserved and "g_1" free alias("g") is "g_1", and a
\* second fresh-name request for the same base name `g` is "g_2" when that is
\* free; a distinct logical name is resolved among its own candidates.
C3_FirstFreeCandidate ==
    [][(~test /\ FreshNameRequest) =>
         /\ op'.ret = FirstFree(op'.name, Taken)
         /\ usedNames' = usedNames \cup {op'.ret}
         /\ (/\ op'.name = <<"g">>
             /\ <<"g">> \in reservedNames
             /\ <<"g", "_", "1">> \notin Taken)
              => op'.ret = <<"g", "_", "1">>
         /\ (/\ op'.name = <<"g">>
             /\ <<"g">> \in reservedNames
             /\ <<"g", "_", "1">> \in usedNames
             /\ <<"g", "_", "2">> \notin Taken)
              => op'.ret = <<"g", "_", "2">>
         /\ \E k \in 0..Cardinality(Taken) : op'.ret = Candidate(op'.name, k)]_vars

C3_Witness ==
    /\ ~test
    /\ op.kind = "getUniqueName"
    /\ op.name = <<"g">>
    /\ op.ret = <<"g", "_", "2">>
    /\ <<"g">> \in DOMAIN aliases
    /\ aliases[<<"g">>] = <<"g", "_", "1">>

\* C4 (child allocator isolation): a name an allocator made by
\* getUniqueNameMaker returns is outside reservedNames, userVars, the usedNames
\* of the component as they stand at the call, and the names the same
\* allocator returned before; the call changes neither usedNames nor the alias
\* map of the component, nor any other allocator.
C4_ChildAllocatorIsolation ==
    [][AllocatorCall("uniqueNameMaker") =>
         /\ op'.ret \notin reservedNames \cup userVars \cup usedNames
         /\ op'.ret \notin makers[op'.maker].returned
         /\ usedNames' = usedNames
         /\ aliases' = aliases
         /\ \A k \in 1..Len(makers) : k # op'.maker => makers'[k] = makers[k]]_vars

C4_Witness ==
    /\ op.kind = "uniqueNameMaker"
    /\ Len(makers) >= 2
    /\ markerSuffix(op.name) \in usedNames
    /\ op.ret # markerSuffix(op.name)
    /\ \E k \in 1..Len(makers) : k # op.maker /\ op.ret \in makers[k].returned

\* ===================================================== the ref validation
Contains(text, part) ==
    \E i \in 1..(Len(text) - Len(part) + 1) :
        SubSeq(text, i, i + Len(part) - 1) = part

ValidationReached ==
    /\ phase # "new"
    /\ ast.js.type = "Program" =>
         /\ ast.js.body # <<>>
         /\ \A k \in 1..Len(ast.js.body) :
              ast.js.body[k].type # "ExportDefaultDeclaration"
    /\ options.customElement => ast.html.tag # NoTag

UndeclaredUsage ==
    \E i \in 1..Len(ast.html.refCallees) :
        ast.html.refCallees[i] \notin ast.html.refs

\* C6 (ref validation): once the script and the template have been walked, a
\* refs.<name> usage of an undeclared name ends the construction with the
\* fatal error `missing-ref`, whose message names the usage and, when the
\* fuzzy matcher gave a declared name, that name; with every usage declared
\* the component is constructed and no error is raised.
C6_RefValidation ==
    ValidationReached =>
        IF UndeclaredUsage
        THEN /\ phase = "error"
             /\ err.code = "missing-ref"
             /\ op.kind = "fuzzymatch"
             /\ op.name \notin ast.html.refs
             /\ Contains(err.message, op.name)
             /\ op.ret # NoMatch =>
                  /\ op.ret \in ast.html.refs
                  /\ Contains(err.message, TextDidYouMean \o TextRefs \o op.ret)
        ELSE /\ phase = "constructed"
             /\ err = NoError
             /\ refs = ast.html.refs

C6_Witness ==
    /\ phase = "error"
    /\ err.code = "missing-ref"
    /\ op.ret # NoMatch
    /\ Len(ast.html.refCallees) = 2
    /\ ast.html.refCallees[1] \in ast.html.refs

\* ============================================================ generate()
Snippets == {k \in 1..Len(out.segments) : out.segments[k].kind = "snippet"}

\* the text of src between the offsets start and end without the offsets gone
KeptText(src, gone, start, end) ==
    LET kept == {k \in start..(end - 1) : k \notin gone}
    IN  [i \in 1..Cardinality(kept) |->
            src[1 + CHOOSE k \in kept : Cardinality({j \in kept : j <= k}) = i]]

Sigils(c) == {k \in 1..Len(out.sigils) : out.sigils[k].sigil = c}

\* C7 (an unresolvable template-variable sigil is fatal): when generate() has
\* met a %name placeholder whose name is no key of templateVars, the
\* compilation has ended with an error and no output text was produced.
C7_UnresolvedSigilIsFatal ==
    (\E k \in Sigils("%") : out.sigils[k].name \notin DOMAIN templateVars)
        => phase = "error" /\ out.code = <<>>

\* C8 (dev-variant substitution): for an @name placeholder with name in the
\* catalogue, the helper marked used and aliased is `<name>Dev` when
\* options.dev is set and `<name>Dev` is in the catalogue (the base helper is
\* then not marked used), and the base helper otherwise; a name outside the
\* catalogue is aliased and not marked used. The text substituted is the
\* alias of the helper chosen, and the helpers marked used are those chosen.
C8_DevVariantSubstitution ==
    /\ \A k \in Sigils("@") :
         LET e == out.sigils[k]
             variant == e.name \o Dev
         IN  IF e.name \in shared /\ options.dev /\ variant \in shared
             THEN /\ e.used = variant
                  /\ e.key = variant
                  /\ e.text = aliases[variant]
                  /\ e.name \notin out.helpers
             ELSE IF e.name \in shared
             THEN e.used = e.name /\ e.key = e.name /\ e.text = aliases[e.name]
             ELSE e.used = <<>> /\ e.key = e.name /\ e.text = aliases[e.name]
                  /\ e.name \notin out.helpers
    /\ out.helpers = {out.sigils[k].used : k \in Sigils("@")} \ {<<>>}

C8_Witness ==
    /\ phase = "generated"
    /\ \E k \in Sigils("@") : out.sigils[k].used = out.sigils[k].name \o Dev
    /\ \E k \in Sigils("@") : out.sigils[k].used = <<>>
    /\ \E k \in Sigils("@") : out.sigils[k].used = out.sigils[k].name

\* C9 (imported-helper list): the {name, alias} list handed to the module
\* wrapper holds the helpers marked used and SvelteComponent, sorted, every
\* name exactly once, and each alias is the name substituted in the output.
C9_ImportedHelpers ==
    out.result # <<>> =>
        LET list == out.importedHelpers
        IN  /\ {list[i].name : i \in 1..Len(list)} = out.helpers \cup {SvelteComponent}
            /\ \A i \in 1..Len(list) : \A j \in 1..Len(list) :
                 i < j => StrLess(list[i].name, list[j].name)
            /\ \A i \in 1..Len(list) : list[i].alias = aliases[list[i].name]
            /\ \A k \in Sigils("@") : \A i \in 1..Len(list) :
                 out.sigils[k].used = list[i].name => out.sigils[k].text = list[i].alias

SeparatorCount ==
    Cardinality({i \in 1..(Len(out.module) - 1) :
                   out.module[i] = "^" /\ out.module[i + 1] = "]"})

Filed == {k \in 1..Len(out.segments) : out.segments[k].filename}

\* C10 (empty-template defensiveness): with no span marker in the assembled
\* text generate() adds exactly one segment with the original filename, of
\* empty content; with one or more span markers it adds no such placeholder,
\* and the segments with the original filename are the span segments, one for
\* each marker.
C10_EmptyTemplate ==
    phase = "generated" =>
        IF SeparatorCount = 0
        THEN /\ Cardinality(Filed) = 1
             /\ \A k \in Filed : /\ out.segments[k].kind = "placeholder"
                                 /\ out.segments[k].content = <<>>
        ELSE /\ \A k \in 1..Len(out.segments) : out.segments[k].kind # "placeholder"
             /\ Filed = Snippets
             /\ Cardinality(Snippets) = SeparatorCount

C10_Witness ==
    /\ phase = "generated"
    /\ SeparatorCount = 0
    /\ source # HtmlOnlySource
    /\ Len(out.sigils) >= 2

====
